---- MODULE Spec2Model ----
(***************************************************************************)
(* Flint (volantvm/flint): authentication gates, session manager, token     *)
(* bucket rate limiter, credential file, passphrase set-up and the serial  *)
(* console relay of the HTTP server (package server, package config, cmd    *)
(* serve).                                                                  *)
(*                                                                          *)
(* Strings that the code splits or compares (the Authorization header, the  *)
(* API key, the console token) are sequences of atoms: an atom is either    *)
(* the space " " or a word without spaces.  URL paths are sequences of      *)
(* segments.  Time is counted in ticks of 0.2 s (Tick), so that one token   *)
(* of the bucket (0.6 s) is three ticks.                                    *)
(***************************************************************************)
EXTENDS Integers, Sequences, FiniteSets, TLC

VARIABLES
    now,            \* time.Now(), in ticks
    advances,       \* number of clock advances so far (bounded)
    apiKey,         \* Server.apiKey
    passphraseHash, \* Server.passphraseHash
    sessions,       \* Server.sessions: sessionID -> expiry
    created,        \* history: sessionID -> time of its createSession
    pendingCleanup, \* ids of spawned, not yet run cleanupExpiredSession goroutines
    resp,           \* history: the last served request and its response, or NoResp
    check,          \* history: the last isValidSession call, or NoCheck
    rateLimiters,   \* Server.rateLimiters: clientIP -> [tokens, lastRefill]
    calls,          \* history: clientIP -> its allowRequest calls so far
    rl,             \* history: the last allowRequest call, or NoCall
    file,           \* ~/.flint/config.json, or NoFile
    proc,           \* the flint serve process: "down" or "up"
    starts,         \* number of flint serve runs so far (bounded)
    firstKey,       \* history: the key of the server after its first start
    relay,          \* one serial console connection: handler, workers, socket, PTY
    passSetup,      \* history: the passphrase set-up of the last flint serve run
    validation      \* history: the last validatePassphrase call of this run

\* the variables of the config file and the process
cfgVars == <<file, proc, starts, firstKey, passSetup, validation>>

\* no flint serve has run yet; current is the passphrase that was set last
NoSetup == [ran |-> FALSE, current |-> ""]
\* no validatePassphrase call yet in this run
NoValidation == [called |-> FALSE]

\* the variables of the HTTP server
serverVars == <<now, advances, apiKey, passphraseHash, sessions, created,
                pendingCleanup, resp, check, rateLimiters, calls, rl>>

vars == <<serverVars, cfgVars, relay>>

\* no console connection: the handler has not been entered
NoRelay ==
    [handler |-> "start", conn |-> "none", peerClosed |-> FALSE,
     inbox |-> <<>>, sent |-> 0, ptyFile |-> "none", hup |-> FALSE,
     output |-> 0, produced |-> 0, inbound |-> "none", outbound |-> "none",
     done |-> FALSE, wg |-> 0, spawned |-> 0, inEnd |-> "none",
     outEnd |-> "none"]

----------------------------------------------------------------------------
(* Time *)

TicksPerSecond == 5
Second == TicksPerSecond
Minute == 60 * Second
Hour == 60 * Minute
\* createSession: time.Now().Add(24 * time.Hour)
SessionTTL == 24 * Hour
\* http.Cookie MaxAge, in seconds
CookieMaxAge == 24 * 60 * 60

----------------------------------------------------------------------------
(* Strings as sequences of atoms *)

SP == " "

\* index of the first space of s, or 0
RECURSIVE IndexOfSpace(_, _)
IndexOfSpace(s, i) ==
    IF i > Len(s) THEN 0
    ELSE IF s[i] = SP THEN i
    ELSE IndexOfSpace(s, i + 1)

\* strings.SplitN(s, " ", 2)
SplitN2(s) ==
    LET i == IndexOfSpace(s, 1) IN
    IF i = 0 THEN <<s>>
    ELSE <<SubSeq(s, 1, i - 1), SubSeq(s, i + 1, Len(s))>>

\* subtle.ConstantTimeCompare(x, y) == 1
ConstantTimeCompare(x, y) ==
    /\ Len(x) = Len(y)
    /\ \A i \in 1..Len(x) : x[i] = y[i]

----------------------------------------------------------------------------
(* Routes: Server.setupRoutes *)

\* the path parameters of the route patterns
Params == {"{uuid}", "{snapshotName}", "{poolName}", "{volumeName}",
           "{networkName}", "{imageId}", "{name}"}

R(m, p, h) == [method |-> m, pattern |-> p, handler |-> h]

\* routes registered on the root router itself, outside every middleware
RootRoutes == {
    R("GET", <<"api", "health">>, "handleHealthCheck"),
    R("GET", <<"api", "vms", "{uuid}", "serial-console">>, "handleGetVMSerialConsole"),
    R("GET", <<"api", "vms", "{uuid}", "serial-console", "ws">>, "handleVMSerialConsoleWS"),
    R("GET", <<"api", "vms", "{uuid}", "vnc", "ws">>, "handleVMVNCWebSocket")
}

\* s.router.Route("/api", ...): patterns relative to /api, behind authMiddleware
ApiRoutes == {
    R("GET", <<"api-key">>, "handleGetAPIKey"),
    R("GET", <<"ssh-key", "detect">>, "handleDetectSSHKey"),
    R("GET", <<"connection", "status">>, "handleGetConnectionStatus"),
    R("POST", <<"connection", "test">>, "handleTestConnection"),
    R("PUT", <<"connection", "config">>, "handleUpdateConnectionConfig"),
    R("GET", <<"vms">>, "handleGetVMs"),
    R("POST", <<"vms">>, "handleCreateVM"),
    R("POST", <<"vms", "from-template">>, "handleCreateVMFromTemplate"),
    R("GET", <<"vms", "{uuid}">>, "handleGetVMDetails"),
    R("DELETE", <<"vms", "{uuid}">>, "handleDeleteVM"),
    R("POST", <<"vms", "{uuid}", "action">>, "handleVMAction"),
    R("GET", <<"vms", "{uuid}", "guest-agent", "status">>, "handleGetGuestAgentStatus"),
    R("POST", <<"vms", "{uuid}", "guest-agent", "install">>, "handleInstallGuestAgent"),
    R("GET", <<"vms", "{uuid}", "vnc">>, "handleGetVMVNCInfo"),
    R("GET", <<"vms", "{uuid}", "console-stream">>, "handleGetVMConsoleStream"),
    R("GET", <<"vms", "{uuid}", "snapshots">>, "handleGetVMSnapshots"),
    R("POST", <<"vms", "{uuid}", "snapshots">>, "handleCreateVMSnapshot"),
    R("DELETE", <<"vms", "{uuid}", "snapshots", "{snapshotName}">>, "handleDeleteVMSnapshot"),
    R("POST", <<"vms", "{uuid}", "snapshots", "{snapshotName}", "revert">>, "handleRevertToVMSnapshot"),
    R("GET", <<"vm-templates">>, "handleGetVMTemplates"),
    R("POST", <<"vm-templates">>, "handleCreateVMTemplate"),
    R("GET", <<"vms", "{uuid}", "performance">>, "handleGetVMPerformance"),
    R("POST", <<"vms", "{uuid}", "attach-disk">>, "handleAttachDiskToVM"),
    R("POST", <<"vms", "{uuid}", "attach-network">>, "handleAttachNetworkInterfaceToVM"),
    R("GET", <<"host", "status">>, "handleGetHostStatus"),
    R("GET", <<"host", "resources">>, "handleGetHostResources"),
    R("GET", <<"storage-pools">>, "handleGetStoragePools"),
    R("POST", <<"storage-pools">>, "handleCreateStoragePool"),
    R("GET", <<"storage-pools", "{poolName}", "volumes">>, "handleGetVolumes"),
    R("POST", <<"storage-pools", "{poolName}", "volumes">>, "handleCreateVolume"),
    R("PUT", <<"storage-pools", "{poolName}", "volumes", "{volumeName}">>, "handleUpdateVolume"),
    R("GET", <<"networks">>, "handleGetNetworks"),
    R("GET", <<"system-interfaces">>, "handleGetSystemInterfaces"),
    R("POST", <<"networks">>, "handleCreateNetwork"),
    R("POST", <<"bridges">>, "handleCreateBridge"),
    R("PUT", <<"networks", "{networkName}">>, "handleUpdateNetwork"),
    R("DELETE", <<"networks", "{networkName}">>, "handleDeleteNetwork"),
    R("DELETE", <<"storage-pools", "{poolName}", "volumes", "{volumeName}">>, "handleDeleteVolume"),
    R("GET", <<"images">>, "handleGetImages"),
    R("POST", <<"images", "import-from-path">>, "handleImportImageFromPath"),
    R("POST", <<"images", "download">>, "handleDownloadImage"),
    R("DELETE", <<"images", "{imageId}">>, "handleDeleteImage"),
    R("GET", <<"image-repository">>, "handleGetRepositoryImages"),
    R("POST", <<"image-repository", "{imageId}", "download">>, "handleDownloadRepositoryImage"),
    R("GET", <<"image-repository", "{imageId}", "status">>, "handleGetDownloadStatus"),
    R("GET", <<"activity">>, "handleGetActivity"),
    R("GET", <<"nwfilters">>, "handleListNWFilters"),
    R("GET", <<"nwfilters", "{name}">>, "handleGetNWFilter"),
    R("POST", <<"nwfilters">>, "handleCreateNWFilter"),
    R("PUT", <<"nwfilters", "{name}">>, "handleUpdateNWFilter"),
    R("DELETE", <<"nwfilters", "{name}">>, "handleDeleteNWFilter")
}

\* webRouter.Get("/*", ...): the embedded UI, behind webAuthMiddleware
UIHandler == "serveAssets"

\* middlewares installed with Use, per router
RootMiddlewares == <<>>
ApiMiddlewares == <<"authMiddleware">>
WebMiddlewares == <<"webAuthMiddleware">>

\* a pattern matches a path segment by segment; a parameter matches any
\* non-empty segment
Matches(pattern, path) ==
    /\ Len(pattern) = Len(path)
    /\ \A i \in 1..Len(path) :
          \/ pattern[i] = path[i]
          \/ pattern[i] \in Params /\ path[i] # ""

StaticCount(pattern) == Cardinality({i \in 1..Len(pattern) : pattern[i] \notin Params})

\* the routes of a table that serve this method and path
Candidates(table, m, path) ==
    {r \in table : r.method = m /\ Matches(r.pattern, path)}

\* chi prefers static segments over parameters
BestRoute(table, m, path) ==
    CHOOSE r \in Candidates(table, m, path) :
        \A q \in Candidates(table, m, path) :
            StaticCount(q.pattern) <= StaticCount(r.pattern)

\* strings.HasPrefix(r.URL.Path, "/api/")
HasApiPrefix(path) == Len(path) >= 2 /\ path[1] = "api"

\* chi mounts the /api sub-router on /api, /api/ and /api/*
UnderApiMount(path) == Len(path) >= 1 /\ path[1] = "api"

\* Where the root router sends a request: a route of its own, else the /api
\* sub-router, else the web router mounted on "/".
Dispatch(m, path) ==
    IF Candidates(RootRoutes, m, path) # {}
    THEN [router |-> "root", chain |-> RootMiddlewares,
          handler |-> BestRoute(RootRoutes, m, path).handler]
    ELSE IF UnderApiMount(path)
    THEN [router |-> "api", chain |-> RootMiddlewares \o ApiMiddlewares,
          handler |-> IF Candidates(ApiRoutes, m, Tail(path)) # {}
                      THEN BestRoute(ApiRoutes, m, Tail(path)).handler
                      ELSE "notFound"]
    ELSE [router |-> "web", chain |-> RootMiddlewares \o WebMiddlewares,
          handler |-> IF m = "GET" THEN UIHandler ELSE "methodNotAllowed"]

----------------------------------------------------------------------------
(* Rate limiter: Server.allowRequest *)

\* bucket capacity and refill per minute ("100 requests per minute")
Capacity == 100
RatePerMinute == 100
\* tokens of a bucket on its creation ("Allow immediate request")
InitialTokens == 99

Clients == {"10.0.0.1", "10.0.0.2"}
\* the client that may send a long burst; the others send a few calls
BurstClient == "10.0.0.1"

\* bounds of the rate limiter runs
MaxBurstCalls == 102
MaxOtherCalls == 2
MaxAdvances == 2

min(a, b) == IF a < b THEN a ELSE b

\* floor(e * 100 / 60) for e seconds given in ticks
FloorTokens(timePassed) == (timePassed * RatePerMinute) \div Minute

\* the tokens of an elapsed time with the fraction rounded up
TokensToAddCeil(timePassed) ==
    (timePassed * RatePerMinute + Minute - 1) \div Minute

\* the elapsed times, in ticks up to 1300, on which the float64 evaluation of
\* timePassed.Seconds() * 100 / 60 falls just below the whole number that
\* the exact quotient is (10.2 s: 1019.9999999999999 / 60 truncates to 16)
FloatShortfall ==
    {51, 87, 102, 174, 189, 204, 333, 348, 363, 378, 393, 408, 651, 666, 681,
     696, 711, 726, 741, 756, 771, 786, 801, 816, 1287}

\* int(timePassed.Seconds() * 100 / 60), timePassed in ticks: the float64
\* product truncated
TokensToAdd(timePassed) ==
    IF timePassed \in FloatShortfall
        THEN FloorTokens(timePassed) - 1
        ELSE FloorTokens(timePassed)

\* the refill step without the clamp to the capacity
RefillUnclamped(limiter, t) ==
    LET tokensToAdd == TokensToAdd(t - limiter.lastRefill) IN
    IF tokensToAdd > 0
    THEN [tokens |-> limiter.tokens + tokensToAdd, lastRefill |-> t]
    ELSE limiter

\* the refill step that moves lastRefill on every call
RefillAlways(limiter, t) ==
    LET tokensToAdd == TokensToAdd(t - limiter.lastRefill) IN
    [tokens |-> min(limiter.tokens + tokensToAdd, Capacity), lastRefill |-> t]

\* the bucket after the refill step of allowRequest
Refill(limiter, t) ==
    LET tokensToAdd == TokensToAdd(t - limiter.lastRefill) IN
    IF tokensToAdd > 0
    THEN [tokens |-> min(limiter.tokens + tokensToAdd, Capacity), lastRefill |-> t]
    ELSE limiter

\* allowRequest that creates the bucket with the full capacity
allowRequestFullBucket(rls, clientIP, t) ==
    IF clientIP \notin DOMAIN rls
    THEN [allowed |-> TRUE,
          limiters |-> [c \in DOMAIN rls \cup {clientIP} |->
                          IF c = clientIP
                          THEN [tokens |-> Capacity, lastRefill |-> t]
                          ELSE rls[c]]]
    ELSE LET limiter == Refill(rls[clientIP], t) IN
         IF limiter.tokens > 0
         THEN [allowed |-> TRUE,
               limiters |-> [rls EXCEPT ![clientIP] =
                               [limiter EXCEPT !.tokens = limiter.tokens - 1]]]
         ELSE [allowed |-> FALSE,
               limiters |-> [rls EXCEPT ![clientIP] = limiter]]

\* allowRequest(clientIP) at time t on the bucket map rls: the result and
\* the bucket map it leaves
allowRequest(rls, clientIP, t) ==
    IF clientIP \notin DOMAIN rls
    THEN [allowed |-> TRUE,
          limiters |-> [c \in DOMAIN rls \cup {clientIP} |->
                          IF c = clientIP
                          THEN [tokens |-> InitialTokens, lastRefill |-> t]
                          ELSE rls[c]]]
    ELSE LET limiter == Refill(rls[clientIP], t) IN
         IF limiter.tokens > 0
         THEN [allowed |-> TRUE,
               limiters |-> [rls EXCEPT ![clientIP] =
                               [limiter EXCEPT !.tokens = limiter.tokens - 1]]]
         ELSE [allowed |-> FALSE,
               limiters |-> [rls EXCEPT ![clientIP] = limiter]]

NoCall == [client |-> "none"]
\* granted: the bursts of calls with their times and the number of calls
\* that were allowed, kept by the runs that look at the rate of a client
NoCalls == [c \in Clients |-> [n |-> 0, first |-> 0, last |-> 0, granted |-> <<>>]]

MaxCallsOf(c) == IF c = BurstClient THEN MaxBurstCalls ELSE MaxOtherCalls

\* a goroutine calls allowRequest(c)
AllowRequestCall(c) ==
    /\ calls[c].n < MaxCallsOf(c)
    /\ LET r == allowRequest(rateLimiters, c, now) IN
       /\ rateLimiters' = r.limiters
       /\ rl' = [client |-> c, at |-> now, allowed |-> r.allowed,
                 existed |-> c \in DOMAIN rateLimiters,
                 idle |-> now - calls[c].last]
    /\ calls' = [calls EXCEPT ![c] =
                   [n |-> @.n + 1,
                    first |-> IF @.n = 0 THEN now ELSE @.first,
                    last |-> now,
                    granted |-> @.granted]]
    /\ UNCHANGED <<relay, cfgVars, now, advances, apiKey, passphraseHash, sessions, created,
                   pendingCleanup, resp, check>>

\* the clock moves on by a fraction of a token, by one token or by a minute
RLSteps == {1, 3, Minute}

RLAdvance(d) ==
    /\ advances < MaxAdvances
    /\ now' = now + d
    /\ advances' = advances + 1
    /\ UNCHANGED <<relay, cfgVars, apiKey, passphraseHash, sessions, created, pendingCleanup,
                   resp, check, rateLimiters, calls, rl>>

----------------------------------------------------------------------------
(* Session manager *)

\* bound: session ids the model can issue
MaxSessions == 1
SessionIDs == 1..MaxSessions
\* a request without the flint_session cookie, and a cookie value that
\* generateSessionID never produced
NoCookie == -1
ForgedID == 0

NoSessions == [id \in {} |-> 0]
NoCheck == [id |-> NoCookie]

\* isValidSession that takes a session for expired at the instant of its expiry
isValidSessionBefore(sess, sessionID, t) ==
    /\ sessionID \in DOMAIN sess
    /\ t < sess[sessionID]

\* isValidSession that only looks the id up
isValidSessionPresent(sess, sessionID, t) ==
    sessionID \in DOMAIN sess

\* isValidSession(sessionID) at time t (under sessionsMu.RLock):
\* present and not time.Now().After(expiry)
isValidSession(sess, sessionID, t) ==
    /\ sessionID \in DOMAIN sess
    /\ ~(t > sess[sessionID])

\* a check that starts the clean-up goroutine for every entry it finds
SpawnedPresent(sess, sessionID, t) ==
    IF sessionID \in DOMAIN sess THEN {sessionID} ELSE {}

\* the ids for which isValidSession(sessionID) at time t runs
\* "go s.cleanupExpiredSession(sessionID)"
Spawned(sess, sessionID, t) ==
    IF sessionID \in DOMAIN sess /\ t > sess[sessionID] THEN {sessionID} ELSE {}

\* generateSessionID: 32 random bytes, an id that was never issued before
FreshIDs == SessionIDs \ DOMAIN created

\* createSession that also stores an entry under an id nobody was given
createSessionAlso(sess, sessionID, t) ==
    [id \in DOMAIN sess \cup {sessionID, ForgedID} |->
        IF id \in {sessionID, ForgedID} THEN t + SessionTTL ELSE sess[id]]

\* createSession with the generated id, at time t
createSession(sess, sessionID, t) ==
    [id \in DOMAIN sess \cup {sessionID} |->
        IF id = sessionID THEN t + SessionTTL ELSE sess[id]]

\* delete(s.sessions, sessionID)
Delete(sess, sessionID) == [id \in DOMAIN sess \ {sessionID} |-> sess[id]]

\* a sweep that only removes what expired more than an hour ago
SweepStale(sess, t) == [id \in {i \in DOMAIN sess : ~(t > sess[i] + Hour)} |-> sess[id]]

\* the body of the ticker loop of cleanupExpiredSessions at time t
Sweep(sess, t) == [id \in {i \in DOMAIN sess : ~(t > sess[i])} |-> sess[id]]

----------------------------------------------------------------------------
(* Passphrase verification: Server.validatePassphrase *)

\* a stored hash is a string; the model keeps what the string is: the empty
\* string, the lowercase or uppercase hex SHA-256 of pw, a bcrypt hash of pw,
\* pw itself, or 64 characters that are not all hex digits
NoHash == [alg |-> "none", pw |-> ""]
Sha256Hex(p) == [alg |-> "sha256", pw |-> p]
Sha256HexUpper(p) == [alg |-> "SHA256", pw |-> p]
Bcrypt(p) == [alg |-> "bcrypt", pw |-> p]
Plain(p) == [alg |-> "plain", pw |-> p]
Junk64 == [alg |-> "junk64", pw |-> ""]

\* len(storedHash): 64 hex characters for SHA-256, 60 for bcrypt
HashLen(h) == CASE h.alg \in {"sha256", "SHA256", "junk64"} -> 64
                [] h.alg = "bcrypt" -> 60
                [] h.alg = "plain" -> Len(h.pw)
                [] OTHER -> 0

\* bcrypt.CompareHashAndPassword(storedHash, passphrase) == nil
BcryptCompare(h, p) == h.alg = "bcrypt" /\ h.pw = p

\* the check without the refusal of the empty passphrase
validatePassphraseAnyInput(storedHash, passphrase) ==
    IF HashLen(storedHash) = 64 THEN Sha256Hex(passphrase) = storedHash
    ELSE BcryptCompare(storedHash, passphrase)

validatePassphrase(storedHash, passphrase) ==
    IF passphrase = "" THEN FALSE
    ELSE IF HashLen(storedHash) = 64 THEN Sha256Hex(passphrase) = storedHash
    ELSE BcryptCompare(storedHash, passphrase)

----------------------------------------------------------------------------
(* The config file ~/.flint/config.json *)

NoFile == [exists |-> FALSE]

\* a config file: the top-level "api_key" (NoKey when the file has none),
\* "security.passphrase_hash" and the permissions of the file
ConfigFile(key, hash, mode) ==
    [exists |-> TRUE, api_key |-> key, passphrase_hash |-> hash, mode |-> mode]

----------------------------------------------------------------------------
(* Requests and responses *)

\* the API keys a server can hold: none (the empty string), the key of the
\* config file, a key generated while serving
NoKey == <<>>
FileKey == <<"k1">>
\* the key that loadOrGenerateConfig generates in the n-th run of flint serve
StartKey(n) == <<"s" \o ToString(n)>>
\* the key that handleGetVMSerialConsole generates in the n-th run
ConsoleKey(n) == <<"c" \o ToString(n)>>
GeneratedKey == ConsoleKey(1)
\* hex.EncodeToString of 32 bytes that rand.Read did not fill
ZeroKey == <<"k0">>

GoodPassphrase == "correct-horse"
BadPassphrase == "wrong-horse"

ParamValue == "u1"
Instantiate(pattern) ==
    [i \in 1..Len(pattern) |-> IF pattern[i] \in Params THEN ParamValue ELSE pattern[i]]

HealthPath == <<"api", "health">>
LoginPath == <<"login">>
SerialConsolePath == <<"api", "vms", ParamValue, "serial-console">>
SerialConsoleWSPath == <<"api", "vms", ParamValue, "serial-console", "ws">>
VNCWSPath == <<"api", "vms", ParamValue, "vnc", "ws">>

\* every registered (method, path)
Registered ==
    {<<r.method, Instantiate(r.pattern)>> : r \in RootRoutes}
    \cup {<<r.method, <<"api">> \o Instantiate(r.pattern)>> : r \in ApiRoutes}

\* the targets that are tried with every combination of header and cookie:
\* the routes of the root router, some routes behind the API gate, and some
\* (method, path) that no route serves
Probed ==
    {<<r.method, Instantiate(r.pattern)>> : r \in RootRoutes}
    \cup {<<"GET", <<"api", "vms">>>>, <<"GET", <<"api", "api-key">>>>,
          <<"PUT", <<"api", "connection", "config">>>>,
          <<"POST", HealthPath>>, <<"POST", SerialConsolePath>>,
          <<"GET", <<"api", "nothing">>>>, <<"GET", <<"api">>>>}

WebTargets == {"GET", "POST"} \X {LoginPath, <<>>, <<"vms">>}

\* Authorization header values; <<>> is the absent header
AuthHeaders == {
    <<>>,
    <<"Bearer", SP>> \o FileKey,
    <<"Bearer", SP>> \o GeneratedKey,
    <<"Bearer", SP>>,
    <<"Bearer">>,
    <<"bearer", SP>> \o FileKey,
    <<"Bearer", SP, SP>> \o FileKey
}

Cookies == {NoCookie, ForgedID} \cup SessionIDs

\* the form of a POST: unparsable (ParseForm fails), or with a passphrase
\* field ("" when the field is missing)
BadForm == [ok |-> FALSE, passphrase |-> ""]
Form(p) == [ok |-> TRUE, passphrase |-> p]
Forms == {BadForm, Form(""), Form(GoodPassphrase), Form(BadPassphrase)}

Tokens == {<<>>, FileKey, GeneratedKey}

Req(m, p, a, c, f, t) ==
    [method |-> m, path |-> p, auth |-> a, cookie |-> c, form |-> f,
     token |-> t, client |-> BurstClient]

\* header and cookie of a caller without credentials, with the key of the
\* config file, or with some cookie
PlainCredentials ==
    {<<a, NoCookie>> : a \in {<<>>, <<"Bearer", SP>> \o FileKey}}
    \cup {<<(<<>>), c>> : c \in Cookies}

Requests ==
    {Req(mp[1], mp[2], a, c, Form(""), <<>>) :
        mp \in Probed, a \in AuthHeaders, c \in Cookies}
    \cup {Req(mp[1], mp[2], ac[1], ac[2], Form(""), <<>>) :
        mp \in Registered, ac \in PlainCredentials}
    \cup {Req("GET", p, a, c, Form(""), t) :
        p \in {SerialConsolePath, SerialConsoleWSPath, VNCWSPath},
        a \in {<<>>, <<"Bearer", SP>> \o FileKey}, c \in Cookies, t \in Tokens}
    \cup {Req(mp[1], mp[2], a, c, f, <<>>) :
        mp \in WebTargets, a \in {<<>>, <<"Bearer", SP>> \o FileKey},
        c \in Cookies, f \in Forms}

NoResp == [status |-> 0]
NoCookieSet == [name |-> "", value |-> NoCookie, path |-> "", httpOnly |-> FALSE, maxAge |-> 0]

AuthErrorBody == "{\"error\": \"Authentication required. Use API key or login via web UI\"}"
RateLimitBody == "{\"error\": \"Rate limit exceeded. Try again in 60 seconds.\"}"

\* what the environment does to one request: the id that generateSessionID
\* returns (NoCookie when rand.Read fails), whether rand.Read fills the
\* bytes of a key, whether the upgrade, the domain lookup and the PTY open
\* succeed
Envs == [newID : FreshIDs \cup {NoCookie}, randOK : BOOLEAN,
         upgradeOK : BOOLEAN, lookupOK : BOOLEAN, openOK : BOOLEAN]

\* the state a request is in while it runs through middleware and handler
Start(req, env) ==
    [env |-> env, at |-> now, key |-> apiKey, pass |-> TRUE, trace |-> <<>>,
     handler |-> "none", status |-> 0, body |-> "", setCookie |-> NoCookieSet,
     location |-> "", retryAfter |-> "", loginForm |-> "none", discloses |-> {},
     upgraded |-> FALSE, lookedUp |-> FALSE, ptyOpened |-> FALSE,
     apiKey |-> apiKey, sessions |-> sessions, created |-> created,
     pending |-> pendingCleanup, limiters |-> rateLimiters]

Reply(st, status, body) == [st EXCEPT !.pass = FALSE, !.status = status, !.body = body]

----------------------------------------------------------------------------
(* Middleware *)

\* Server.rateLimitMiddleware
\* the middleware without the exemption of the health check
rateLimitMiddlewareNoSkip(req, st) ==
    LET r == allowRequest(st.limiters, req.client, st.at) IN
    IF ~r.allowed
    THEN [Reply(st, 429, RateLimitBody) EXCEPT
             !.retryAfter = "60", !.limiters = r.limiters]
    ELSE [st EXCEPT !.limiters = r.limiters]

rateLimitMiddleware(req, st) ==
    IF req.path = HealthPath THEN st
    ELSE LET r == allowRequest(st.limiters, req.client, st.at) IN
         IF ~r.allowed
         THEN [Reply(st, 429, RateLimitBody) EXCEPT
                  !.retryAfter = "60", !.limiters = r.limiters]
         ELSE [st EXCEPT !.limiters = r.limiters]

\* the Authorization header is "Bearer <api-key>"
BearerMatches(authHeader, key) ==
    /\ authHeader # <<>>
    /\ LET parts == SplitN2(authHeader) IN
       /\ Len(parts) = 2
       /\ parts[1] = <<"Bearer">>
       /\ ConstantTimeCompare(parts[2], key)

\* the cookie check of both gates: r.Cookie("flint_session") found and
\* s.isValidSession(cookie.Value); an expired entry spawns its clean-up
CookieCheck(req, st) ==
    [valid |-> req.cookie # NoCookie /\ isValidSession(st.sessions, req.cookie, st.at),
     pending |-> IF req.cookie # NoCookie
                 THEN st.pending \cup Spawned(st.sessions, req.cookie, st.at)
                 ELSE st.pending]

\* authMiddleware that answers 401 to a wrong Authorization header without
\* looking at the cookie
authMiddlewareHeaderDecides(req, st) ==
    IF BearerMatches(req.auth, st.apiKey) THEN st
    ELSE IF req.auth # <<>> THEN Reply(st, 401, AuthErrorBody)
    ELSE LET c == CookieCheck(req, st) IN
         IF c.valid THEN [st EXCEPT !.pending = c.pending]
         ELSE [Reply(st, 401, AuthErrorBody) EXCEPT !.pending = c.pending]

\* Server.authMiddleware
authMiddleware(req, st) ==
    IF BearerMatches(req.auth, st.apiKey) THEN st
    ELSE LET c == CookieCheck(req, st) IN
         IF c.valid THEN [st EXCEPT !.pending = c.pending]
         ELSE [Reply(st, 401, AuthErrorBody) EXCEPT !.pending = c.pending]

\* showLoginForm that never shows the error
showLoginFormPlain(st, invalid) ==
    [Reply(st, 200, "login") EXCEPT !.loginForm = "plain"]

\* Server.showLoginForm(w, invalid)
showLoginForm(st, invalid) ==
    [Reply(st, 200, "login") EXCEPT
        !.loginForm = IF invalid THEN "error" ELSE "plain"]

\* Server.webAuthMiddleware
webAuthMiddleware(req, st) ==
    IF HasApiPrefix(req.path) THEN st
    ELSE LET c == CookieCheck(req, st)
             st1 == [st EXCEPT !.pending = c.pending] IN
         IF c.valid THEN st1
         ELSE IF req.method = "POST" /\ req.path = LoginPath
         THEN IF ~req.form.ok THEN Reply(st1, 400, "Invalid form data")
              ELSE IF validatePassphrase(passphraseHash, req.form.passphrase)
              THEN IF st.env.newID = NoCookie
                   THEN Reply(st1, 500, "Failed to create session")
                   ELSE [Reply(st1, 303, "") EXCEPT
                           !.sessions = createSession(st1.sessions, st.env.newID, st.at),
                           !.created = [id \in DOMAIN st1.created \cup {st.env.newID} |->
                                          IF id = st.env.newID THEN st.at
                                          ELSE st1.created[id]],
                           !.setCookie = [name |-> "flint_session",
                                          value |-> st.env.newID, path |-> "/",
                                          httpOnly |-> TRUE,
                                          maxAge |-> 24 * 60 * 60],
                           !.location = "/"]
              ELSE showLoginForm(st1, TRUE)
         ELSE showLoginForm(st1, FALSE)

Middleware(name, req, st) ==
    LET st1 == [st EXCEPT !.trace = Append(@, name)] IN
    CASE name = "rateLimitMiddleware" -> rateLimitMiddleware(req, st1)
      [] name = "authMiddleware" -> authMiddleware(req, st1)
      [] name = "webAuthMiddleware" -> webAuthMiddleware(req, st1)

\* chi runs the middlewares of a router in the order of their Use calls; one
\* that does not call next ends the request
RECURSIVE RunChain(_, _, _)
RunChain(chain, req, st) ==
    IF chain = <<>> THEN st
    ELSE LET st1 == Middleware(Head(chain), req, st) IN
         IF st1.pass THEN RunChain(Tail(chain), req, st1) ELSE st1

----------------------------------------------------------------------------
(* Handlers *)

Done(st, name, status, body) ==
    [st EXCEPT !.handler = name, !.status = status, !.body = body]

\* Server.handleGetVMSerialConsole: generates a key when the server has none
\* and returns the key as the console token
handleGetVMSerialConsole(req, st) ==
    LET key == IF st.apiKey = NoKey
               THEN IF st.env.randOK THEN ConsoleKey(starts) ELSE ZeroKey
               ELSE st.apiKey IN
    [Done(st, "handleGetVMSerialConsole", 200, "console") EXCEPT
        !.apiKey = key, !.discloses = {key}]

\* handleVMSerialConsoleWS without the check for an empty token
handleVMSerialConsoleWSNoEmptyCheck(req, st) ==
    IF req.token # st.apiKey
    THEN Done(st, "handleVMSerialConsoleWS", 401, "Invalid authentication token")
    ELSE IF ~st.env.upgradeOK
    THEN Done(st, "handleVMSerialConsoleWS", 400, "Failed to upgrade to WebSocket")
    ELSE [Done(st, "handleVMSerialConsoleWS", 101, "Serial console connected") EXCEPT
             !.upgraded = TRUE, !.lookedUp = TRUE, !.ptyOpened = st.env.lookupOK /\ st.env.openOK]

\* Server.handleVMSerialConsoleWS up to the start of the relay
handleVMSerialConsoleWS(req, st) ==
    IF req.token = <<>>
    THEN Done(st, "handleVMSerialConsoleWS", 401, "Authentication token required")
    ELSE IF req.token # st.apiKey
    THEN Done(st, "handleVMSerialConsoleWS", 401, "Invalid authentication token")
    ELSE IF ~st.env.upgradeOK
    THEN Done(st, "handleVMSerialConsoleWS", 400, "Failed to upgrade to WebSocket")
    ELSE IF ~st.env.lookupOK
    THEN [Done(st, "handleVMSerialConsoleWS", 101, "Error: ") EXCEPT
             !.upgraded = TRUE, !.lookedUp = TRUE]
    ELSE IF ~st.env.openOK
    THEN [Done(st, "handleVMSerialConsoleWS", 101, "Error opening PTY: ") EXCEPT
             !.upgraded = TRUE, !.lookedUp = TRUE]
    ELSE [Done(st, "handleVMSerialConsoleWS", 101, "Serial console connected") EXCEPT
             !.upgraded = TRUE, !.lookedUp = TRUE, !.ptyOpened = TRUE]

\* Server.handleVMVNCWebSocket: the inline token check of the VNC endpoint
handleVMVNCWebSocket(req, st) ==
    IF req.token = <<>> \/ req.token # st.apiKey
    THEN Done(st, "handleVMVNCWebSocket", 401, "Invalid authentication token")
    ELSE IF ~st.env.upgradeOK
    THEN Done(st, "handleVMVNCWebSocket", 400, "Failed to upgrade to WebSocket")
    ELSE [Done(st, "handleVMVNCWebSocket", 101, "vnc") EXCEPT !.upgraded = TRUE]

\* Server.handleGetAPIKey
handleGetAPIKey(req, st) ==
    [Done(st, "handleGetAPIKey", 200, "key") EXCEPT !.discloses = {st.apiKey}]

\* the route handler that the router found for the request
Handle(name, req, st) ==
    CASE name = "handleGetVMSerialConsole" -> handleGetVMSerialConsole(req, st)
      [] name = "handleVMSerialConsoleWS" -> handleVMSerialConsoleWS(req, st)
      [] name = "handleVMVNCWebSocket" -> handleVMVNCWebSocket(req, st)
      [] name = "handleGetAPIKey" -> handleGetAPIKey(req, st)
      [] name = "notFound" -> Done(st, name, 404, "404 page not found")
      [] name = "methodNotAllowed" -> Done(st, name, 405, "")
      [] OTHER -> Done(st, name, 200, "ok")

\* ServeHTTP of the root router: dispatch, middleware chain, handler
ServeHTTP(req, env) ==
    LET d == Dispatch(req.method, req.path)
        st == RunChain(d.chain, req, Start(req, env)) IN
    [router |-> d.router,
     st |-> IF st.pass THEN Handle(d.handler, req, st) ELSE st]

\* what of the run of a request is kept as the last response
Response(req, out) ==
    [req |-> req, at |-> out.st.at, key |-> out.st.key, router |-> out.router,
     trace |-> out.st.trace, admitted |-> out.st.pass, handler |-> out.st.handler,
     status |-> out.st.status, body |-> out.st.body,
     setCookie |-> out.st.setCookie, location |-> out.st.location,
     retryAfter |-> out.st.retryAfter, loginForm |-> out.st.loginForm,
     discloses |-> out.st.discloses, upgraded |-> out.st.upgraded,
     lookedUp |-> out.st.lookedUp, ptyOpened |-> out.st.ptyOpened]

\* the environment choices that the run of this request can consult
EnvsFor(req) ==
    {e \in Envs :
        /\ (req.path # LoginPath => e.newID = NoCookie)
        /\ (req.path # SerialConsolePath => e.randOK)
        /\ (req.path \notin {SerialConsoleWSPath, VNCWSPath} =>
               e.upgradeOK /\ e.lookupOK /\ e.openOK)}

----------------------------------------------------------------------------
(* The running server: requests, clock, session clean-up *)

\* the server serves one request; its response stays in resp until the
\* request is over
Serve(req) ==
    /\ resp = NoResp
    \* a caller can present an id that was issued, never one that
    \* generateSessionID has yet to draw
    /\ req.cookie \in {NoCookie, ForgedID} \cup DOMAIN created
    /\ \E env \in EnvsFor(req) :
        LET out == ServeHTTP(req, env) IN
        /\ resp' = Response(req, out)
        /\ apiKey' = out.st.apiKey
        /\ sessions' = out.st.sessions
        /\ created' = out.st.created
        /\ pendingCleanup' = out.st.pending
        /\ rateLimiters' = out.st.limiters
        /\ UNCHANGED <<relay, cfgVars, now, advances, passphraseHash, check, calls, rl>>

\* the response has been written and the request is over
Finish ==
    /\ resp # NoResp
    /\ resp' = NoResp
    /\ UNCHANGED <<relay, cfgVars, now, advances, apiKey, passphraseHash, sessions, created,
                   pendingCleanup, check, rateLimiters, calls, rl>>

\* bound: clock advances of a server run
MaxClockSteps == 1
\* the clock moves on by a tick, or to just after the end of a session
ClockSteps == {1, SessionTTL + 1}

Advance(d) ==
    /\ resp = NoResp
    /\ advances < MaxClockSteps
    /\ now' = now + d
    /\ advances' = advances + 1
    /\ UNCHANGED <<relay, cfgVars, apiKey, passphraseHash, sessions, created, pendingCleanup,
                   resp, check, rateLimiters, calls, rl>>

\* Server.cleanupExpiredSession(sessionID), spawned by isValidSession
CleanupExpiredSession(id) ==
    /\ resp = NoResp
    /\ id \in pendingCleanup
    /\ sessions' = Delete(sessions, id)
    /\ pendingCleanup' = pendingCleanup \ {id}
    /\ UNCHANGED <<relay, cfgVars, now, advances, apiKey, passphraseHash, created, resp,
                   check, rateLimiters, calls, rl>>

\* one tick of the ticker of Server.cleanupExpiredSessions
CleanupExpiredSessions ==
    /\ resp = NoResp
    /\ sessions' = Sweep(sessions, now)
    /\ sessions' # sessions
    /\ UNCHANGED <<relay, cfgVars, now, advances, apiKey, passphraseHash, created,
                   pendingCleanup, resp, check, rateLimiters, calls, rl>>

\* the server after NewServer in the first run of flint serve: the key and
\* the hash that loadOrGenerateConfig took from the config file, no session,
\* no bucket
Init ==
    /\ now = 0
    /\ advances = 0
    /\ file \in {ConfigFile(k, h, "0600") :
                    k \in {NoKey, FileKey},
                    h \in {Bcrypt(GoodPassphrase), Sha256Hex(GoodPassphrase)}}
    /\ apiKey = file.api_key
    /\ passphraseHash = file.passphrase_hash
    /\ sessions = NoSessions
    /\ created = NoSessions
    /\ pendingCleanup = {}
    /\ resp = NoResp
    /\ check = NoCheck
    /\ rateLimiters = NoSessions
    /\ calls = NoCalls
    /\ rl = NoCall
    /\ relay = NoRelay
    /\ proc = "up"
    /\ starts = 1
    /\ firstKey = [started |-> TRUE, key |-> apiKey]
    /\ passSetup = NoSetup
    /\ validation = NoValidation

Next ==
    \/ \E req \in Requests : Serve(req)
    \/ Finish
    \/ \E d \in ClockSteps : Advance(d)
    \/ \E id \in SessionIDs : CleanupExpiredSession(id)
    \/ CleanupExpiredSessions

Spec == Init /\ [][Next]_vars

----------------------------------------------------------------------------
(* Properties of the gates and the routes *)

Range(f) == {f[i] : i \in DOMAIN f}

\* the request of response r carried "Authorization: Bearer <t>" with t the
\* API key that the server held when it served the request
CarriesKey(r) == r.req.auth = <<"Bearer", SP>> \o r.key

\* the request of response r carried a flint_session cookie that names a
\* session created no more than 24 hours before the request
CarriesSession(r) ==
    /\ r.req.cookie \in DOMAIN created
    /\ r.at <= created[r.req.cookie] + 24 * Hour

Authenticated(r) == CarriesKey(r) \/ CarriesSession(r)

\* C1: a request behind the API gate is passed on to the handler of its route
\* if and only if it carries the API key as bearer token or the cookie of a
\* valid session; every other request is answered 401 with the JSON error
\* body and reaches no handler.
C1_ApiGate ==
    (resp # NoResp /\ resp.router = "api") =>
        /\ resp.admitted <=> Authenticated(resp)
        /\ resp.admitted => resp.handler # "none"
        /\ ~resp.admitted =>
              /\ resp.status = 401
              /\ resp.body = AuthErrorBody
              /\ resp.handler = "none"

\* a wrong bearer token together with the cookie of a valid session is admitted
C1_Witness ==
    /\ resp # NoResp /\ resp.router = "api"
    /\ resp.req.auth = <<"Bearer", SP>> \o GeneratedKey
    /\ resp.key = FileKey
    /\ CarriesSession(resp)
    /\ resp.admitted /\ resp.handler = "handleGetVMs"

\* the routes under /api/ that the claim leaves outside the API gate
ExemptTargets == {<<"GET", HealthPath>>, <<"GET", SerialConsoleWSPath>>,
                  <<"GET", VNCWSPath>>}

\* C2: a request to a registered route under /api/, other than the health
\* check and the two WebSocket endpoints, that carries neither the API key
\* nor the cookie of a valid session is answered 401 and runs no handler.
C2_AllApiRoutesGated ==
    (/\ resp # NoResp
     /\ <<resp.req.method, resp.req.path>> \in Registered \ ExemptTargets
     /\ HasApiPrefix(resp.req.path)
     /\ ~Authenticated(resp))
    => (resp.status = 401 /\ resp.handler = "none")

\* C4: a console WebSocket request whose token is empty or differs from the
\* API key is answered 401 and causes no upgrade, no domain lookup and no PTY
\* open; an upgrade or a PTY open happens only for the token that matched.
C4_ConsoleTokenFirst ==
    (/\ resp # NoResp
     /\ resp.req.method = "GET"
     /\ resp.req.path = SerialConsoleWSPath)
    => /\ (resp.req.token = <<>> \/ resp.req.token # resp.key) =>
              /\ resp.status = 401
              /\ ~resp.upgraded /\ ~resp.lookedUp /\ ~resp.ptyOpened
       /\ (resp.upgraded \/ resp.lookedUp \/ resp.ptyOpened) =>
              (resp.req.token # <<>> /\ resp.req.token = resp.key)

\* an empty token is refused by a server whose key is empty as well
C4_Witness ==
    /\ resp # NoResp
    /\ resp.req.method = "GET" /\ resp.req.path = SerialConsoleWSPath
    /\ resp.req.token = <<>> /\ resp.key = NoKey
    /\ resp.status = 401 /\ ~resp.upgraded

\* C5: every request other than the health check has gone through the rate
\* limiter before any gate or handler: the limiter is the first middleware
\* of its run and holds a bucket for its client.
C5_RateLimiterFirst ==
    (resp # NoResp /\ resp.req.path # HealthPath) =>
        /\ Len(resp.trace) >= 1
        /\ resp.trace[1] = "rateLimitMiddleware"
        /\ resp.req.client \in DOMAIN rateLimiters

\* the passphrase of a login is the one that was set
CorrectPassphrase(req) == req.form.ok /\ req.form.passphrase = GoodPassphrase
IsLogin(req) == req.method = "POST" /\ req.path = LoginPath

SessionCookie(id) ==
    [name |-> "flint_session", value |-> id, path |-> "/", httpOnly |-> TRUE,
     maxAge |-> 86400]

\* the response of a successful login: 303 to "/" with the cookie of a
\* session created by this request
LoggedIn(r) ==
    /\ r.status = 303 /\ r.location = "/"
    /\ r.setCookie.value \in DOMAIN created
    /\ created[r.setCookie.value] = r.at
    /\ r.setCookie = SessionCookie(r.setCookie.value)
    /\ ~r.admitted /\ r.handler = "none"

LoginFormShown(r, flag) ==
    /\ r.status = 200 /\ r.loginForm = flag
    /\ r.setCookie = NoCookieSet
    /\ ~r.admitted /\ r.handler = "none"

Refused(r, status, body) ==
    /\ r.status = status /\ r.body = body
    /\ r.setCookie = NoCookieSet /\ r.loginForm = "none"
    /\ ~r.admitted /\ r.handler = "none"

\* the response of the web gate to each kind of request
WebGateResponse ==
    (resp # NoResp /\ resp.router = "web") =>
        IF CarriesSession(resp) THEN resp.admitted /\ resp.handler # "none"
        ELSE IF IsLogin(resp.req) /\ ~resp.req.form.ok
        THEN Refused(resp, 400, "Invalid form data")
        ELSE IF IsLogin(resp.req) /\ CorrectPassphrase(resp.req)
        THEN LoggedIn(resp) \/ Refused(resp, 500, "Failed to create session")
        ELSE IF IsLogin(resp.req) THEN LoginFormShown(resp, "error")
        ELSE LoginFormShown(resp, "plain")

\* a request behind the web gate adds one session when it logs in, and
\* leaves the sessions alone otherwise
WebGateSessions ==
    (resp = NoResp /\ resp' # NoResp /\ resp'.router = "web") =>
        IF resp'.status = 303
        THEN /\ resp'.setCookie.value \notin DOMAIN created
             /\ DOMAIN created' = DOMAIN created \cup {resp'.setCookie.value}
             /\ DOMAIN sessions' = DOMAIN sessions \cup {resp'.setCookie.value}
             /\ \A id \in DOMAIN sessions : sessions'[id] = sessions[id]
        ELSE created' = created /\ sessions' = sessions

----------------------------------------------------------------------------
(* The rate limiter on its own: calls of allowRequest at non-decreasing times *)

RLInit ==
    /\ now = 0
    /\ advances = 0
    /\ apiKey = FileKey
    /\ passphraseHash = Bcrypt(GoodPassphrase)
    /\ sessions = NoSessions
    /\ created = NoSessions
    /\ pendingCleanup = {}
    /\ resp = NoResp
    /\ check = NoCheck
    /\ rateLimiters = NoSessions
    /\ calls = NoCalls
    /\ rl = NoCall
    /\ relay = NoRelay
    /\ file = ConfigFile(FileKey, Bcrypt(GoodPassphrase), "0600")
    /\ proc = "up"
    /\ starts = 1
    /\ firstKey = [started |-> TRUE, key |-> apiKey]
    /\ passSetup = NoSetup
    /\ validation = NoValidation

RLNext ==
    \/ \E c \in Clients : AllowRequestCall(c)
    \/ \E d \in RLSteps : RLAdvance(d)

SpecRL == RLInit /\ [][RLNext]_vars

\* C6: while no time has passed since the first call of a client, its n-th
\* call is allowed exactly when n <= 100 (so the first 100 calls are allowed
\* and the 101st is refused); a call that comes 60 seconds or more after the
\* client's previous call is allowed.
C6_BurstAndRecovery ==
    rl # NoCall =>
        /\ (rl.at = calls[rl.client].first) =>
              (rl.allowed <=> calls[rl.client].n <= 100)
        /\ (rl.existed /\ rl.idle >= 60 * TicksPerSecond) => rl.allowed

\* the 101 calls of the burst were made at one instant, the bucket was left
\* empty, and the call 60 seconds later is allowed
C6_Witness ==
    /\ rl # NoCall /\ rl.client = BurstClient
    /\ calls[BurstClient].n = 102
    /\ calls[BurstClient].first = 0
    /\ rl.at = 60 * TicksPerSecond /\ rl.idle = 60 * TicksPerSecond
    /\ rl.allowed
    /\ rateLimiters[BurstClient].tokens = 99

\* C7: the tokens of every bucket stay within 0..100.
C7_TokensInRange ==
    \A c \in DOMAIN rateLimiters :
        rateLimiters[c].tokens >= 0 /\ rateLimiters[c].tokens <= 100

\* a bucket that was drained below the capacity is refilled to exactly the
\* capacity by a long pause, and another one is empty
C7_Witness ==
    /\ rl # NoCall /\ rl.existed
    /\ rateLimiters[rl.client].tokens = 99
    /\ rl.idle >= 60 * TicksPerSecond
    /\ calls[rl.client].n >= 3
    /\ \E c \in DOMAIN rateLimiters : c # rl.client /\ rateLimiters[c].tokens < 99

----------------------------------------------------------------------------
(* The session manager on its own: createSession, isValidSession, the       *)
(* clean-up goroutines and the sweep, interleaved with the clock            *)

\* createSession(): a goroutine creates a session
CreateSessionCall(id) ==
    /\ id \in FreshIDs
    /\ sessions' = createSession(sessions, id, now)
    /\ created' = [i \in DOMAIN created \cup {id} |->
                      IF i = id THEN now ELSE created[i]]
    /\ UNCHANGED <<relay, cfgVars, now, advances, apiKey, passphraseHash, pendingCleanup,
                   resp, check, rateLimiters, calls, rl>>

\* isValidSession(id): a goroutine validates an id that was issued, or a
\* forged one; the map lookup and the time check run under the read lock
IsValidSessionCall(id) ==
    /\ id \in {ForgedID} \cup DOMAIN created
    /\ check' = [id |-> id, at |-> now,
                 result |-> isValidSession(sessions, id, now),
                 present |-> id \in DOMAIN sessions]
    /\ pendingCleanup' = pendingCleanup \cup Spawned(sessions, id, now)
    /\ UNCHANGED <<relay, cfgVars, now, advances, apiKey, passphraseHash, sessions, created,
                   resp, rateLimiters, calls, rl>>

\* bound: clock advances of a session manager run
MaxSessionSteps == 4
\* the clock moves on by a tick, by an hour or by the life of a session
SessionSteps == {1, Hour, SessionTTL}

SessionAdvance(d) ==
    /\ advances < MaxSessionSteps
    /\ now' = now + d
    /\ advances' = advances + 1
    /\ UNCHANGED <<relay, cfgVars, apiKey, passphraseHash, sessions, created, pendingCleanup,
                   resp, check, rateLimiters, calls, rl>>

SessInit == RLInit

SessNext ==
    \/ \E id \in SessionIDs : CreateSessionCall(id)
    \/ \E id \in {ForgedID} \cup SessionIDs : IsValidSessionCall(id)
    \/ \E id \in SessionIDs : CleanupExpiredSession(id)
    \/ CleanupExpiredSessions
    \/ \E d \in SessionSteps : SessionAdvance(d)

SpecSess == SessInit /\ [][SessNext]_vars

C9_ExpiredNeverValid ==
    (check # NoCheck /\ check.result) =>
        /\ check.id \in DOMAIN created
        /\ check.present
        /\ ~(created[check.id] + SessionTTL < check.at)

\* a check has refused an expired session whose entry is still in the map,
\* with its clean-up goroutine not yet run
C9_Witness ==
    /\ check # NoCheck /\ ~check.result /\ check.present
    /\ check.at = now
    /\ check.id \in DOMAIN sessions
    /\ check.id \in pendingCleanup
    /\ sessions[check.id] < now

(***************************************************************************)
(* The life of ~/.flint/config.json across runs of flint serve             *)
(***************************************************************************)
\* bound on the number of runs of flint serve
MaxStarts == 4

\* os.Create makes a missing file with 0666 less the umask (022)
CreateMode == "0644"

ShortPassphrase == "short"
OtherPassphrase == "battery-staple"
Passphrases == {ShortPassphrase, GoodPassphrase, OtherPassphrase}
MinPassphraseLen == 8

\* config.LoadConfig: the defaults, then the fields of Config found in the
\* file; Config has no api_key field, so the key of the file is not read
LoadConfig(f) ==
    [passphrase_hash |-> IF f.exists THEN f.passphrase_hash ELSE NoHash]

\* Config.SaveConfig: os.Create truncates the file and the encoder writes the
\* fields of Config, so the written file has no api_key
SaveConfig(cfg, f) ==
    ConfigFile(NoKey, cfg.passphrase_hash,
               IF f.exists THEN f.mode ELSE CreateMode)

\* the legacy hash: the hex SHA-256 of the passphrase
hashPassphraseSha256(passphrase) == Sha256Hex(passphrase)

\* bcrypt.GenerateFromPassword(passphrase, 12)
hashPassphrase(passphrase) == Bcrypt(passphrase)

\* the --passphrase flag is hashed and saved as it is; --set-passphrase and
\* the first-run prompt refuse a passphrase shorter than 8 characters
handlePassphraseSetup(cfg, f, passphraseFlag, setPassphrase, typed) ==
    LET saved(p) ==
            LET c == [cfg EXCEPT !.passphrase_hash = hashPassphrase(p)]
            IN  [ok |-> TRUE, file |-> SaveConfig(c, f), set |-> p]
        prompt ==
            IF Len(typed) < MinPassphraseLen
                THEN [ok |-> FALSE, file |-> f, set |-> ""]
                ELSE saved(typed)
    IN  IF passphraseFlag # ""
            THEN saved(passphraseFlag)
        ELSE IF setPassphrase
            THEN prompt
        ELSE IF cfg.passphrase_hash = NoHash
            THEN prompt
        ELSE [ok |-> TRUE, file |-> f, set |-> ""]

\* Server.loadOrGenerateConfig in the n-th run: a readable file is loaded, an
\* absent or empty api_key leaves the key of the server empty; only without a
\* file is a key generated and written with the default config
loadOrGenerateConfig(f, n, randOK) ==
    IF f.exists
        THEN [ok |-> TRUE, apiKey |-> f.api_key,
              passphraseHash |-> f.passphrase_hash, file |-> f]
    ELSE IF ~randOK
        THEN [ok |-> FALSE, apiKey |-> NoKey, passphraseHash |-> NoHash,
              file |-> f]
    ELSE [ok |-> TRUE, apiKey |-> StartKey(n), passphraseHash |-> NoHash,
          file |-> ConfigFile(StartKey(n), NoHash, "0600")]

\* flint serve: LoadConfig, handlePassphraseSetup, then NewServer; a refused
\* passphrase or a failed key generation ends the process before it serves
ServeCmd(passphraseFlag, setPassphrase, typed, randOK) ==
    /\ proc = "down"
    /\ starts < MaxStarts
    /\ starts' = starts + 1
    /\ validation' = NoValidation
    /\ LET cfg == LoadConfig(file)
           setup == handlePassphraseSetup(cfg, file, passphraseFlag,
                                          setPassphrase, typed)
           srv == loadOrGenerateConfig(setup.file, starts + 1, randOK)
       IN  /\ passSetup' =
                [ran |-> TRUE, flag |-> passphraseFlag,
                 prompted |-> passphraseFlag = "" /\
                              (setPassphrase \/ cfg.passphrase_hash = NoHash),
                 typed |-> IF passphraseFlag = "" /\ (setPassphrase \/ cfg.passphrase_hash = NoHash)
                              THEN typed ELSE "", ok |-> setup.ok, set |-> setup.set,
                 before |-> file, after |-> setup.file,
                 current |-> IF setup.set # "" THEN setup.set
                                               ELSE passSetup.current]
           /\ IF setup.ok /\ srv.ok
               THEN /\ file' = srv.file
                    /\ proc' = "up"
                    /\ apiKey' = srv.apiKey
                    /\ passphraseHash' = srv.passphraseHash
                    /\ firstKey' = IF firstKey.started
                                       THEN firstKey
                                       ELSE [started |-> TRUE,
                                             key |-> srv.apiKey]
               ELSE /\ file' = setup.file
                    /\ UNCHANGED <<proc, apiKey, passphraseHash, firstKey>>
    /\ UNCHANGED <<relay, now, advances, sessions, created, pendingCleanup, resp,
                   check, rateLimiters, calls, rl>>

\* SIGINT/SIGTERM: the process ends and its memory with it
Shutdown ==
    /\ proc = "up"
    /\ proc' = "down"
    /\ apiKey' = NoKey
    /\ passphraseHash' = NoHash
    /\ validation' = NoValidation
    /\ UNCHANGED <<file, starts, firstKey, passSetup>>
    /\ UNCHANGED <<relay, now, advances, sessions, created, pendingCleanup, resp,
                   check, rateLimiters, calls, rl>>

\* PUT /api/connection/config with a body that validates: the file is loaded
\* into a Config and saved again
UpdateConnectionConfig ==
    /\ proc = "up"
    /\ file' = SaveConfig(LoadConfig(file), file)
    /\ UNCHANGED <<proc, starts, firstKey, passSetup, validation>>
    /\ UNCHANGED <<relay, now, advances, apiKey, passphraseHash, sessions, created,
                   pendingCleanup, resp, check, rateLimiters, calls, rl>>

\* GET /api/vms/{uuid}/serial-console on a server without a key: a key is made
\* in memory and not written to the file
ConsoleInfo(randOK) ==
    /\ proc = "up"
    /\ apiKey = NoKey
    /\ apiKey' = IF randOK THEN ConsoleKey(starts) ELSE ZeroKey
    /\ UNCHANGED <<file, proc, starts, firstKey, passSetup, validation>>
    /\ UNCHANGED <<relay, now, advances, passphraseHash, sessions, created,
                   pendingCleanup, resp, check, rateLimiters, calls, rl>>

\* POST /login with a passphrase on the running server: validatePassphrase
\* against the hash that the server loaded
ValidatePassphraseCall(passphrase) ==
    /\ proc = "up"
    /\ validation' = [called |-> TRUE, stored |-> passphraseHash,
                      candidate |-> passphrase,
                      result |-> validatePassphrase(passphraseHash, passphrase)]
    /\ UNCHANGED <<file, proc, starts, firstKey, passSetup>>
    /\ UNCHANGED <<relay, now, advances, apiKey, passphraseHash, sessions,
                   created, pendingCleanup, resp, check, rateLimiters, calls, rl>>

\* before the first run: no config file, or one that the operator wrote with
\* a key and a passphrase hash
CfgInit ==
    /\ now = 0
    /\ advances = 0
    /\ apiKey = NoKey
    /\ passphraseHash = NoHash
    /\ sessions = NoSessions
    /\ created = NoSessions
    /\ pendingCleanup = {}
    /\ resp = NoResp
    /\ check = NoCheck
    /\ rateLimiters = NoSessions
    /\ calls = NoCalls
    /\ rl = NoCall
    /\ relay = NoRelay
    /\ file \in {NoFile, ConfigFile(FileKey, Bcrypt(GoodPassphrase), "0600")}
    /\ proc = "down"
    /\ starts = 0
    /\ firstKey = [started |-> FALSE]
    /\ passSetup = NoSetup
    /\ validation = NoValidation

CfgNext ==
    \/ \E passphraseFlag \in {""} \cup Passphrases, setPassphrase \in BOOLEAN,
          typed \in Passphrases, randOK \in BOOLEAN :
            ServeCmd(passphraseFlag, setPassphrase, typed, randOK)
    \/ Shutdown
    \/ UpdateConnectionConfig
    \/ \E randOK \in BOOLEAN : ConsoleInfo(randOK)
    \/ \E passphrase \in {""} \cup Passphrases :
            ValidatePassphraseCall(passphrase)

SpecCfg == CfgInit /\ [][CfgNext]_vars

\* C3: whenever the server runs, the config file contains api_key and the key
\* the server holds is that key, the one of the first start
C3_KeyStable ==
    proc = "up" =>
        /\ file.exists
        /\ file.api_key # NoKey
        /\ apiKey = file.api_key
        /\ firstKey.started
        /\ apiKey = firstKey.key

C15_ShortRejected ==
    LET given == IF ~passSetup.ran THEN ""
                 ELSE IF passSetup.flag # "" THEN passSetup.flag
                 ELSE IF passSetup.prompted THEN passSetup.typed
                 ELSE ""
    IN  (given # "" /\ Len(given) < MinPassphraseLen) =>
            /\ ~passSetup.ok
            /\ passSetup.after = passSetup.before

(***************************************************************************)
(* validatePassphrase on its own, against every kind of stored hash         *)
(***************************************************************************)
\* the strings whose hashes are stored, and the candidates that are tried
HashedStrings ==
    {"", ShortPassphrase, GoodPassphrase, GoodPassphrase \o "x",
     OtherPassphrase}
TriedPassphrases == HashedStrings \cup {BadPassphrase}

\* what config.json can hold as security.passphrase_hash
StoredHashes ==
    {NoHash, Junk64}
        \cup {Sha256Hex(p) : p \in HashedStrings}
        \cup {Sha256HexUpper(p) : p \in HashedStrings}
        \cup {Bcrypt(p) : p \in HashedStrings}
        \cup {Plain(p) : p \in HashedStrings \ {""}}

\* a server that loaded one of the stored hashes
VPInit ==
    /\ now = 0
    /\ advances = 0
    /\ apiKey = FileKey
    /\ passphraseHash \in StoredHashes
    /\ sessions = NoSessions
    /\ created = NoSessions
    /\ pendingCleanup = {}
    /\ resp = NoResp
    /\ check = NoCheck
    /\ rateLimiters = NoSessions
    /\ calls = NoCalls
    /\ rl = NoCall
    /\ relay = NoRelay
    /\ file = ConfigFile(FileKey, passphraseHash, "0600")
    /\ proc = "up"
    /\ starts = 1
    /\ firstKey = [started |-> TRUE, key |-> apiKey]
    /\ passSetup = NoSetup
    /\ validation = NoValidation

VPNext == \E passphrase \in TriedPassphrases : ValidatePassphraseCall(passphrase)

SpecVP == VPInit /\ [][VPNext]_vars

\* the stored hash is 64 hex characters
IsHex64(h) == h.alg \in {"sha256", "SHA256"}

\* the stored hash is a bcrypt hash of the candidate
IsBcryptOf(h, c) == h.alg = "bcrypt" /\ h.pw = c

\* C16: validatePassphrase(c) is true exactly when c is not empty and either
\* the stored hash is 64 hex characters and is the lowercase hex SHA-256 of c,
\* or it is not of that form and is a bcrypt hash of c.
C16_ValidateExactly ==
    validation.called =>
        LET h == validation.stored
            c == validation.candidate
        IN  validation.result <=>
                /\ c # ""
                /\ \/ IsHex64(h) /\ h = Sha256Hex(c)
                   \/ ~IsHex64(h) /\ IsBcryptOf(h, c)

\* with the hex SHA-256 of s stored, s + "x" has just been refused
C16_Witness ==
    /\ validation.called
    /\ validation.stored = Sha256Hex(GoodPassphrase)
    /\ validation.candidate = GoodPassphrase \o "x"
    /\ ~validation.result

\* C17: the server never holds, and never hands out, a key made from a
\* failed read of the random source.
C17_FailedReadIsFatal ==
    /\ apiKey # ZeroKey
    /\ resp # NoResp => ZeroKey \notin resp.discloses

\* C18: the config file, once it exists, has owner-only permissions.
C18_OwnerOnly == file.exists => file.mode = "0600"

\* C20: a running server has a non-empty API key, so that an Authorization
\* header "Bearer " with an empty token does not match it.
C20_KeyNeverEmpty ==
    proc = "up" =>
        /\ apiKey # NoKey
        /\ ~BearerMatches(<<"Bearer", SP>>, apiKey)

(***************************************************************************)
(* rateLimitMiddleware on its own, in front of a handler                    *)
(***************************************************************************)
\* a request for which nothing in the environment fails
QuietEnv ==
    [newID |-> NoCookie, randOK |-> TRUE, upgradeOK |-> TRUE,
     lookupOK |-> TRUE, openOK |-> TRUE]

RLMRequests ==
    {Req("GET", p, <<>>, NoCookie, Form(""), <<>>) :
        p \in {HealthPath, <<"api", "vms">>, <<>>}}

\* a request passes through rateLimitMiddleware: it is handed to the next
\* handler (admitted) or answered 429
RateLimited(req) ==
    /\ req.path = HealthPath \/ calls[req.client].n < MaxBurstCalls
    /\ LET st == rateLimitMiddleware(req, Start(req, QuietEnv)) IN
       /\ rateLimiters' = st.limiters
       /\ resp' = [req |-> req, at |-> now, status |-> st.status,
                   admitted |-> st.pass, retryAfter |-> st.retryAfter,
                   before |-> rateLimiters]
    /\ calls' = IF req.path = HealthPath THEN calls
                ELSE [calls EXCEPT ![req.client] =
                        [n |-> @.n + 1,
                         first |-> IF @.n = 0 THEN now ELSE @.first,
                         last |-> now,
                         granted |-> @.granted]]
    /\ UNCHANGED <<relay, cfgVars, now, advances, apiKey, passphraseHash,
                   sessions, created, pendingCleanup, check, rl>>

RLMNext ==
    \/ \E req \in RLMRequests : RateLimited(req)
    \/ \E d \in RLSteps : RLAdvance(d)

SpecRLM == RLInit /\ [][RLMNext]_vars

\* C19: a request to /api/health is handed on, is not answered 429 and
\* leaves every bucket as it was.
C19_HealthExempt ==
    (resp # NoResp /\ resp.req.path = HealthPath) =>
        /\ resp.status # 429
        /\ resp.admitted
        /\ rateLimiters = resp.before

\* a health check has passed while the bucket of its caller was empty, after
\* a request of that caller was answered 429
C19_Witness ==
    /\ resp # NoResp /\ resp.req.path = HealthPath
    /\ resp.admitted
    /\ resp.req.client \in DOMAIN rateLimiters
    /\ rateLimiters[resp.req.client].tokens = 0
    /\ calls[resp.req.client].n > 100
    /\ resp.at = calls[resp.req.client].last

(***************************************************************************)
(* The serial console relay: the handler of one connection after the token  *)
(* check, its two workers, the WebSocket client and the PTY of the VM       *)
(***************************************************************************)
\* bounds: messages the client sends, chunks of output the PTY produces
MaxClientMessages == 2
MaxPtyOutput == 2

MessageTypes == {"text", "binary"}
\* what reader.Read returns as its error: none, io.EOF, or another error
ReadErrors == {"nil", "EOF", "EIO"}

\* upgrader.Upgrade: on failure the handler answers 400 and returns
Upgrade(ok) ==
    /\ relay.handler = "start"
    /\ relay' = IF ok THEN [relay EXCEPT !.handler = "upgraded", !.conn = "open"]
                      ELSE [relay EXCEPT !.handler = "returned"]
    /\ UNCHANGED <<serverVars, cfgVars>>

\* s.client.GetVMSerialConsolePath: on failure the error is written to the
\* socket and the handler returns through its defers
GetVMSerialConsolePath(ok) ==
    /\ relay.handler = "upgraded"
    /\ relay' = [relay EXCEPT !.handler = IF ok THEN "path" ELSE "defers"]
    /\ UNCHANGED <<serverVars, cfgVars>>

\* os.OpenFile(ptyPath, O_RDWR)
OpenFile(ok) ==
    /\ relay.handler = "path"
    /\ relay' = IF ok THEN [relay EXCEPT !.handler = "opened", !.ptyFile = "open"]
                      ELSE [relay EXCEPT !.handler = "defers"]
    /\ UNCHANGED <<serverVars, cfgVars>>

\* wg.Add(2), done := make(chan struct{}), and the two go statements
StartRelay ==
    /\ relay.handler = "opened"
    /\ relay' = [relay EXCEPT !.handler = "wait", !.wg = 2,
                              !.spawned = @ + 2,
                              !.inbound = "select", !.outbound = "select"]
    /\ UNCHANGED <<serverVars, cfgVars>>

\* wg.Wait() returning at once, whatever the counter
WaitNoWait ==
    /\ relay.handler = "wait"
    /\ relay' = [relay EXCEPT !.handler = "defers"]
    /\ UNCHANGED <<serverVars, cfgVars>>

\* wg.Wait(): returns when both workers have called wg.Done
Wait ==
    /\ relay.handler = "wait"
    /\ relay.wg = 0
    /\ relay' = [relay EXCEPT !.handler = "defers"]
    /\ UNCHANGED <<serverVars, cfgVars>>

\* the deferred ptyFile.Close() and conn.Close(), then the handler returns
Defers ==
    /\ relay.handler = "defers"
    /\ relay' = [relay EXCEPT
                    !.handler = "returned",
                    !.ptyFile = IF @ = "open" THEN "closed" ELSE @,
                    !.conn = IF @ = "open" THEN "closed" ELSE @]
    /\ UNCHANGED <<serverVars, cfgVars>>

\* the exit of the inbound worker: the deferred close(done), then wg.Done()
InboundExit(r, why) ==
    [r EXCEPT !.inbound = "exited", !.inEnd = why, !.done = TRUE,
              !.wg = @ - 1]

\* the exit of the outbound worker: the deferred wg.Done(), nothing else
OutboundExit(r, why) ==
    [r EXCEPT !.outbound = "exited", !.outEnd = why, !.wg = @ - 1]

\* WebSocket -> PTY, the select: done is closed by this worker only, at its
\* exit, so the default branch is taken
InboundSelect ==
    /\ relay.inbound = "select"
    /\ relay' = IF relay.done THEN InboundExit(relay, "done")
                              ELSE [relay EXCEPT !.inbound = "read"]
    /\ UNCHANGED <<serverVars, cfgVars>>

\* conn.ReadMessage() blocks until a message or the close of the socket; a
\* text message is written to the PTY, and after a failed write the worker
\* enters conn.WriteMessage with its error report
InboundRead ==
    /\ relay.inbound = "read"
    /\ \/ /\ relay.inbox # <<>>
          /\ LET r == [relay EXCEPT !.inbox = Tail(@)]
             IN  relay' = IF Head(relay.inbox) = "text" /\ relay.hup
                              THEN [r EXCEPT !.inbound = "report"]
                              ELSE [r EXCEPT !.inbound = "select"]
       \/ /\ relay.inbox = <<>>
          /\ relay.peerClosed
          /\ relay' = InboundExit(relay, "socket")
    /\ UNCHANGED <<serverVars, cfgVars>>

\* conn.WriteMessage("Error writing to PTY: ...") returns; its result is
\* ignored and the worker ends
InboundReport ==
    /\ relay.inbound = "report"
    /\ relay' = InboundExit(relay, "pty")
    /\ UNCHANGED <<serverVars, cfgVars>>

\* PTY -> WebSocket, the select: a closed done channel ends the worker
OutboundSelect ==
    /\ relay.outbound = "select"
    /\ relay' = IF relay.done THEN OutboundExit(relay, "done")
                              ELSE [relay EXCEPT !.outbound = "read"]
    /\ UNCHANGED <<serverVars, cfgVars>>

\* reader.Read(buffer) blocks until the PTY has output or is hung up; with
\* output the worker enters conn.WriteMessage with the bytes; on the hang-up
\* the read fails with io.EOF, and the worker ends, or with another error,
\* and the worker enters conn.WriteMessage with its error report
OutboundRead(err) ==
    /\ relay.outbound = "read"
    /\ \/ /\ relay.output > 0
          /\ err = "nil"
          /\ relay' = [relay EXCEPT !.output = @ - 1, !.outbound = "write"]
       \/ /\ relay.output = 0
          /\ relay.hup
          /\ err # "nil"
          /\ relay' = IF err = "EOF" THEN OutboundExit(relay, "pty")
                                     ELSE [relay EXCEPT !.outbound = "report"]
    /\ UNCHANGED <<serverVars, cfgVars>>

\* conn.WriteMessage(buffer[:n]) returns: a failed write ends the worker
OutboundWrite(writeOK) ==
    /\ relay.outbound = "write"
    /\ writeOK \/ relay.peerClosed
    /\ relay' = IF writeOK THEN [relay EXCEPT !.outbound = "select"]
                           ELSE OutboundExit(relay, "socket")
    /\ UNCHANGED <<serverVars, cfgVars>>

\* conn.WriteMessage("Error reading from PTY: ...") returns; its result is
\* ignored and the worker ends
OutboundReport ==
    /\ relay.outbound = "report"
    /\ relay' = OutboundExit(relay, "pty")
    /\ UNCHANGED <<serverVars, cfgVars>>

\* the browser sends a message
ClientSend(type) ==
    /\ relay.conn = "open"
    /\ ~relay.peerClosed
    /\ relay.sent < MaxClientMessages
    /\ relay' = [relay EXCEPT !.inbox = Append(@, type), !.sent = @ + 1]
    /\ UNCHANGED <<serverVars, cfgVars>>

\* the browser closes the socket or navigates away
ClientClose ==
    /\ relay.conn = "open"
    /\ ~relay.peerClosed
    /\ relay' = [relay EXCEPT !.peerClosed = TRUE]
    /\ UNCHANGED <<serverVars, cfgVars>>

\* the VM writes to its serial console
PtyOutput ==
    /\ relay.ptyFile = "open"
    /\ ~relay.hup
    /\ relay.produced < MaxPtyOutput
    /\ relay' = [relay EXCEPT !.output = @ + 1, !.produced = @ + 1]
    /\ UNCHANGED <<serverVars, cfgVars>>

\* the VM stops: the other end of the PTY is closed
PtyClose ==
    /\ relay.ptyFile = "open"
    /\ ~relay.hup
    /\ relay' = [relay EXCEPT !.hup = TRUE]
    /\ UNCHANGED <<serverVars, cfgVars>>

\* the steps of the handler and of its workers
RelaySteps ==
    \/ \E ok \in BOOLEAN : Upgrade(ok)
    \/ \E ok \in BOOLEAN : GetVMSerialConsolePath(ok)
    \/ \E ok \in BOOLEAN : OpenFile(ok)
    \/ StartRelay
    \/ Wait
    \/ Defers
    \/ InboundSelect
    \/ InboundRead
    \/ InboundReport
    \/ OutboundSelect
    \/ \E err \in ReadErrors : OutboundRead(err)
    \/ \E writeOK \in BOOLEAN : OutboundWrite(writeOK)
    \/ OutboundReport

\* the steps of the browser and of the VM
RelayEnvironment ==
    \/ \E type \in MessageTypes : ClientSend(type)
    \/ ClientClose
    \/ PtyOutput
    \/ PtyClose

RelayInit == RLInit

RelayNext == RelaySteps \/ RelayEnvironment

SpecRelay == RelayInit /\ [][RelayNext]_vars

\* the scheduler runs every goroutine that can take a step; the browser and
\* the VM are under no obligation
SpecRelayLive ==
    /\ RelayInit
    /\ [][RelayNext]_vars
    /\ WF_vars(StartRelay) /\ WF_vars(Wait) /\ WF_vars(Defers)
    /\ WF_vars(InboundSelect) /\ WF_vars(InboundRead)
    /\ WF_vars(InboundReport)
    /\ WF_vars(OutboundSelect)
    /\ WF_vars(\E err \in ReadErrors : OutboundRead(err))
    /\ WF_vars(\E writeOK \in BOOLEAN : OutboundWrite(writeOK))
    /\ WF_vars(OutboundReport)

\* C11: once the outbound loop has ended on the end of the PTY, the inbound
\* loop ends too, whatever the client does or does not do.
C11_PtyCloseEndsInbound ==
    (relay.outbound = "exited" /\ relay.outEnd = "pty")
        ~> (relay.inbound = "exited")

\* C12: once the inbound loop has ended on a failed socket read, the outbound
\* loop ends too, whether or not the PTY produces more output.
C12_SocketCloseEndsOutbound ==
    (relay.inbound = "exited" /\ relay.inEnd = "socket")
        ~> (relay.outbound = "exited")

\* C13: a connection has no worker or exactly two; the handler returns only
\* when both have finished; after it has returned the socket is closed if it
\* was upgraded and the PTY file is closed if it was opened; and neither is
\* closed while a worker is running.
C13_ResourceDiscipline ==
    LET running == {relay.inbound, relay.outbound}
                       \cap {"select", "read", "write", "report"}
    IN  /\ relay.spawned \in {0, 2}
        /\ (relay.spawned = 2) <=>
              (relay.inbound # "none" /\ relay.outbound # "none")
        /\ relay.handler = "returned" =>
              /\ running = {}
              /\ relay.conn \in {"none", "closed"}
              /\ relay.ptyFile \in {"none", "closed"}
        /\ (relay.conn = "closed" \/ relay.ptyFile = "closed") =>
              running = {}

\* a relay has run, both workers have finished, and the handler has returned
\* with the socket and the PTY file closed
C13_Witness ==
    /\ relay.handler = "returned"
    /\ relay.spawned = 2
    /\ relay.inbound = "exited" /\ relay.outbound = "exited"
    /\ relay.conn = "closed" /\ relay.ptyFile = "closed"

(***************************************************************************)
(* The API key in responses and in the running server                       *)
(***************************************************************************)
\* C21: a response contains the API key only if its request carried the API
\* key as bearer token or the cookie of a valid session.
C21_KeyOnlyToAuthenticated ==
    (resp # NoResp /\ resp.discloses # {}) => Authenticated(resp)

\* C28: while the server runs its API key is the one it had when NewServer
\* returned; no request changes it.
C28_KeyUnchanged == apiKey = firstKey.key

(***************************************************************************)
(* allowRequest step by step: one client, calls at chosen distances         *)
(***************************************************************************)
\* bound: clock advances of a step-by-step run
MaxStepAdvances == 2
\* 0.2 s, 0.6 s (one token), 10.2 s (17 tokens in exact arithmetic), 60 s
StepSteps == {1, 3, 51, Minute}

StepAdvance(d) ==
    /\ advances < MaxStepAdvances
    /\ now' = now + d
    /\ advances' = advances + 1
    /\ UNCHANGED <<relay, cfgVars, apiKey, passphraseHash, sessions, created,
                   pendingCleanup, resp, check, rateLimiters, calls, rl>>

StepNext ==
    \/ AllowRequestCall(BurstClient)
    \/ \E d \in StepSteps : StepAdvance(d)

SpecStep == RLInit /\ [][StepNext]_vars

\* a call of client c is the step that the claim describes, with tokensFor(e)
\* the tokens that e ticks of elapsed time are worth
StepMatches(tokensFor(_)) ==
    \A c \in Clients :
        calls'[c].n # calls[c].n =>
            IF c \notin DOMAIN rateLimiters
                THEN /\ rateLimiters'[c] = [tokens |-> 99, lastRefill |-> now]
                     /\ rl'.allowed
                ELSE LET e == now - rateLimiters[c].lastRefill
                         t == min(rateLimiters[c].tokens + tokensFor(e), 100)
                     IN  IF t > 0
                             THEN /\ rateLimiters'[c].tokens = t - 1
                                  /\ rl'.allowed
                             ELSE /\ rateLimiters'[c].tokens = 0
                                  /\ ~rl'.allowed

\* C22: an unknown client gets a bucket of 99 tokens with lastRefill = now and
\* is allowed; for a known client, with e the time since lastRefill, the
\* tokens become min(tokens + floor(e*100/60), 100), then one token is taken
\* and the call allowed if there is one, else the tokens stay 0 and the call
\* is refused.
C22_StepAsClaimed == [][StepMatches(FloorTokens)]_vars

\* C23 as claimed: after a call for a known client its lastRefill is the time
\* of the call.
C23_LastRefillAsClaimed ==
    [][\A c \in DOMAIN rateLimiters :
          calls'[c].n # calls[c].n => rateLimiters'[c].lastRefill = now]_vars

\* C23: after a call for a known client its lastRefill is the time of the
\* call if the call added at least one token, and is unchanged otherwise.
C23_LastRefill ==
    [][\A c \in DOMAIN rateLimiters :
          calls'[c].n # calls[c].n =>
              rateLimiters'[c].lastRefill =
                  IF TokensToAdd(now - rateLimiters[c].lastRefill) > 0
                      THEN now
                      ELSE rateLimiters[c].lastRefill]_vars

\* a known client has called 0.2 s or 0.4 s after its lastRefill, and the
\* lastRefill is still the earlier time
C23_Witness ==
    /\ rl # NoCall /\ rl.existed /\ rl.at = now
    /\ rateLimiters[rl.client].lastRefill < rl.at
    /\ rateLimiters[rl.client].lastRefill > 0

----------------------------------------------------------------------------
(* The session map of the running server *)

\* the request that has just been served is a login that succeeded
LoginSucceeded ==
    /\ IsLogin(resp'.req) /\ CorrectPassphrase(resp'.req)
    /\ resp'.status = 303
    /\ resp'.setCookie.value \in SessionIDs

\* a step of the server changes the session map as the claim allows
SessionsFrame ==
    LET gained == DOMAIN sessions' \ DOMAIN sessions IN
    /\ \A id \in DOMAIN sessions \cap DOMAIN sessions' : sessions'[id] = sessions[id]
    /\ gained # {} =>
          /\ resp = NoResp /\ resp' # NoResp
          /\ LoginSucceeded
          /\ gained = {resp'.setCookie.value}
    /\ (resp = NoResp /\ resp' # NoResp) =>
          IF LoginSucceeded
              THEN Cardinality(gained) = 1 /\ DOMAIN sessions \subseteq DOMAIN sessions'
              ELSE sessions' = sessions
    /\ \A id \in DOMAIN sessions \ DOMAIN sessions' : now > sessions[id]

\* C24: the session map gains an entry only when a POST /login with the
\* correct passphrase is served, and then exactly one; a failed login, a login
\* answered 500, an API request and every other request leave the map as it
\* is, and an entry leaves the map only when it has expired.
C24_SessionsGrowOnLogin == [][SessionsFrame]_vars

\* a login has succeeded and its session is the only entry of the map
C24_Witness ==
    /\ resp # NoResp /\ resp.status = 303
    /\ IsLogin(resp.req)
    /\ DOMAIN sessions = {resp.setCookie.value}
    /\ sessions[resp.setCookie.value] = resp.at + SessionTTL

----------------------------------------------------------------------------
(* Removal of sessions *)

\* an entry that a step removes has expired at the time of the step
OnlyExpiredRemoved ==
    \A id \in DOMAIN sessions \ DOMAIN sessions' : now > sessions[id]

\* a session that was created and has not expired is in the map and valid
StaysValid ==
    \A id \in DOMAIN created :
        ~(now > created[id] + SessionTTL) => isValidSession(sessions, id, now)

\* C26: neither the clean-up goroutine that a check started, whenever it
\* runs, nor the sweep removes a session whose expiry has not passed at the
\* moment of the deletion; every session stays valid until its expiry.
C26_OnlyExpiredDeleted == []StaysValid /\ [][OnlyExpiredRemoved]_vars

\* the clean-up goroutine that a check started has run at a later time, and
\* the entry of the expired session is gone
C26_Witness ==
    /\ check # NoCheck /\ ~check.result /\ check.present
    /\ check.at < now
    /\ check.id \in DOMAIN created
    /\ check.id \notin DOMAIN sessions
    /\ check.id \notin pendingCleanup

----------------------------------------------------------------------------
(* The sweep: the ticker of cleanupExpiredSessions fires again and again
   for as long as the server runs *)

SpecSessLive == SessInit /\ [][SessNext]_vars /\ WF_vars(CleanupExpiredSessions)

\* a tick of the sweep leaves no expired session and keeps every other one
SweepRemovesExpired ==
    CleanupExpiredSessions =>
        /\ \A id \in DOMAIN sessions :
              id \in DOMAIN sessions' <=> ~(now > sessions[id])
        /\ \A id \in DOMAIN sessions' : sessions'[id] = sessions[id]

\* C25: a tick of the sweep removes every session with now > expiry, and
\* every session that has expired is eventually removed from the map, also
\* when its cookie is never presented again.
C25_SweepRemoves ==
    /\ [][SweepRemovesExpired]_vars
    /\ \A id \in SessionIDs :
          (id \in DOMAIN sessions /\ now > sessions[id]) ~> (id \notin DOMAIN sessions)

\* a session that nobody presented after its creation has expired and has
\* been removed
C25_Witness ==
    /\ check = NoCheck /\ pendingCleanup = {}
    /\ \E id \in DOMAIN created :
          /\ id \notin DOMAIN sessions
          /\ now > created[id] + SessionTTL

----------------------------------------------------------------------------
(* Writers of the console socket *)

\* the workers that are inside conn.WriteMessage
Writers ==
    {w \in {"inbound", "outbound"} : relay[w] \in {"write", "report"}}

\* C27: at most one goroutine is inside conn.WriteMessage of a console
\* connection at any moment.
C27_OneWriter == Cardinality(Writers) <= 1

----------------------------------------------------------------------------
(* The rate of one client: bursts of allowRequest calls, with their times   *)
(* and the number of calls that were allowed                                *)

\* bounds: bursts of calls and clock advances of a rate run
MaxBursts == 3
MaxRateAdvances == 3
\* the client sends one call, or as many as a bucket holds, or more
BurstSizes == {1, 99, 101}
\* the clock moves on by less than a token, by one token or by a minute
RateSteps == {1, 2, 3, Minute}

\* k calls of allowRequest(clientIP) one after the other at time t: how many
\* were allowed, the result of the last, and the bucket map they leave
RECURSIVE allowRequests(_, _, _, _)
allowRequests(rls, clientIP, t, k) ==
    IF k = 1
        THEN LET r == allowRequest(rls, clientIP, t) IN
             [allowed |-> IF r.allowed THEN 1 ELSE 0, last |-> r.allowed,
              limiters |-> r.limiters]
        ELSE LET head == allowRequests(rls, clientIP, t, k \div 2)
                 rest == allowRequests(head.limiters, clientIP, t, k - k \div 2)
             IN  [allowed |-> head.allowed + rest.allowed, last |-> rest.last,
                  limiters |-> rest.limiters]

\* client c calls allowRequest k times in a row; the burst is noted with its
\* time and the number of its calls that were allowed
Burst(c, k) ==
    /\ Len(calls[c].granted) < MaxBursts
    /\ LET r == allowRequests(rateLimiters, c, now, k) IN
       /\ rateLimiters' = r.limiters
       /\ rl' = [client |-> c, at |-> now, allowed |-> r.last,
                 existed |-> k > 1 \/ c \in DOMAIN rateLimiters,
                 idle |-> IF k > 1 THEN 0 ELSE now - calls[c].last]
       /\ calls' = [calls EXCEPT ![c] =
                      [n |-> @.n + k,
                       first |-> IF @.n = 0 THEN now ELSE @.first,
                       last |-> now,
                       granted |-> Append(@.granted, [at |-> now, n |-> r.allowed])]]
    /\ UNCHANGED <<relay, cfgVars, now, advances, apiKey, passphraseHash, sessions,
                   created, pendingCleanup, resp, check>>

RateAdvance(d) ==
    /\ advances < MaxRateAdvances
    /\ now' = now + d
    /\ advances' = advances + 1
    /\ UNCHANGED <<relay, cfgVars, apiKey, passphraseHash, sessions, created,
                   pendingCleanup, resp, check, rateLimiters, calls, rl>>

RateNext ==
    \/ \E k \in BurstSizes : Burst(BurstClient, k)
    \/ \E d \in RateSteps : RateAdvance(d)

SpecRate == RLInit /\ [][RateNext]_vars

\* the number of calls allowed in the bursts granted[i] .. granted[j]
RECURSIVE AllowedIn(_, _, _)
AllowedIn(granted, i, j) ==
    IF i > j THEN 0 ELSE granted[i].n + AllowedIn(granted, i + 1, j)

\* C29: in every interval of time, of length T, the calls of one client that
\* were allowed are at most 100 + floor(T*100/60).
C29_RateBound ==
    \A c \in Clients :
        LET g == calls[c].granted IN
        \A i \in 1..Len(g) : \A j \in i..Len(g) :
            AllowedIn(g, i, j) <= 100 + FloorTokens(g[j].at - g[i].at)

\* the bound is met: in an interval that begins after the first call of the
\* client, 100 calls and one for every 0.6 s of the interval were allowed
C29_Witness ==
    LET g == calls[BurstClient].granted IN
    \E i \in 1..Len(g) : \E j \in i..Len(g) :
        /\ g[i].at > calls[BurstClient].first
        /\ g[j].at > g[i].at
        /\ AllowedIn(g, i, j) = 100 + FloorTokens(g[j].at - g[i].at)

----------------------------------------------------------------------------
(* A client that polls: once its bucket is empty it calls allowRequest      *)
(* again and again, as often as it likes between two ticks of the clock     *)

\* bound: ticks of the clock of a polling run
MaxPollTicks == 6

\* client c, with an empty bucket, calls allowRequest(c); there is no bound
\* on these calls, and the call before it is kept with the result
Poll(c) ==
    /\ c \in DOMAIN rateLimiters
    /\ rateLimiters[c].tokens = 0
    /\ LET r == allowRequest(rateLimiters, c, now) IN
       /\ rateLimiters' = r.limiters
       /\ rl' = [client |-> c, at |-> now, allowed |-> r.allowed,
                 existed |-> TRUE, idle |-> now - calls[c].last,
                 prev |-> [at |-> rl.at, allowed |-> rl.allowed]]
    /\ UNCHANGED <<relay, cfgVars, now, advances, apiKey, passphraseHash, sessions,
                   created, pendingCleanup, resp, check, calls>>

\* the clock moves on by 0.2 s
PollTick ==
    /\ advances < MaxPollTicks
    /\ now' = now + 1
    /\ advances' = advances + 1
    /\ UNCHANGED <<relay, cfgVars, apiKey, passphraseHash, sessions, created,
                   pendingCleanup, resp, check, rateLimiters, calls, rl>>

PollNext ==
    \/ AllowRequestCall(BurstClient)
    \/ Poll(BurstClient)
    \/ PollTick

\* the client keeps calling and the time passes
SpecPoll ==
    /\ RLInit
    /\ [][PollNext]_vars
    /\ WF_vars(Poll(BurstClient))
    /\ WF_vars(PollTick)

\* a call that is refused leaves the bucket, and so its lastRefill, as it was
RefusedKeepsRefill ==
    (rl' # NoCall /\ ~rl'.allowed) => rateLimiters' = rateLimiters

\* the client has been refused and its bucket is empty, with 0.6 s of the
\* run still to come
Starved(c) ==
    /\ rl # NoCall /\ rl.client = c /\ ~rl.allowed
    /\ rateLimiters[c].tokens = 0
    /\ advances + 3 <= MaxPollTicks

\* C30: a client whose bucket is empty and which keeps calling, however
\* often, is eventually allowed again; a refused call does not move the
\* lastRefill of the bucket.
C30_NoStarvation ==
    /\ [][RefusedKeepsRefill]_vars
    /\ Starved(BurstClient) ~> (rl # NoCall /\ rl.allowed)

\* the client was refused, has called again 0.2 s later and was allowed
C30_Witness ==
    /\ rl # NoCall /\ rl.allowed
    /\ "prev" \in DOMAIN rl
    /\ ~rl.prev.allowed
    /\ rl.at = rl.prev.at + 1

====
